---- MODULE Spec2Model ----
(***************************************************************************)
(* Model of the SecuX hardware keyring (src/keyring/eth-secux-keyring.js): *)
(* the session fields of one SecuxKeyring object, its public operations,   *)
(* the promises they leave pending, and the answers of the device; and of  *)
(* the collectible detection poller                                        *)
(* (src/assets/CollectibleDetectionController.ts): its configuration, its  *)
(* polling timers and the detections in progress.                          *)
(***************************************************************************)
EXTENDS Integers, Sequences, FiniteSets, Bags, TLC

\* ------------------------------------------------------------------ bounds
MaxCalls == 2
MaxPage == 2
MaxCursor == 1
MaxN == 2
MaxIndex == 2
MaxStarts == 2
MaxDetections == 2
MaxTimers == 2

\* ------------------------------------------------------- program constants
hdPathString == "m/44'/60'/0'/0/0"
MAX_INDEX == 1000
DELAY_BETWEEN_POPUPS == 1000
PerPageDefault == 5
MAINNET == "mainnet"

\* ---------------------------------------------------------------- addresses
\* An address is the account a key derives, written in one of two letter
\* cases: "check" is the EIP-55 mixed-case form, "lower" the all-lower form.
\* key names the extended public key it descends from, idx the child index
\* (RootIdx: the node of the base path itself).
RootIdx == 0 - 1
NoKey == ""
NoAddr == [key |-> NoKey, idx |-> RootIdx, form |-> "none"]
Addr(k, i, f) == [key |-> k, idx |-> i, form |-> f]
ForeignKey == "foreign"

toChecksumAddress(a) == [a EXCEPT !.form = "check"]
toLowerCase(a) == [a EXCEPT !.form = "lower"]

\* -------------------------------------------------------------------- errors
\* A message is a sequence of text pieces; toString of an error object puts
\* the error's name in front of its message ("Error: timeout").
Message(text) == <<text>>
ErrorObj(name, message) == [name |-> name, message |-> message]
Falsy == [name |-> "", message |-> <<>>]
toString(e) == <<e.name>> \o e.message
UnknownError == Message("Unknown error")
NullHdkTypeError == ErrorObj("TypeError", Message("Cannot set properties of null"))
HDKeyReferenceError == ErrorObj("ReferenceError", Message("HDKey is not defined"))
\* `Address ${address} not found in this keyring`: the fixed text of it.
NotFoundError == ErrorObj("Error", <<"Address ", " not found in this keyring">>)
\* What a synchronous call threw: nothing, or an error object.
NoThrow == Falsy

\* ----------------------------------------------------------------- device
\* getXPublickey(path) answers with the key material of that path, with a
\* failure it reports itself, or the transport throws.
XPub(path) == path
HandshakeResponses ==
  { [kind |-> "success", error |-> <<>>, e |-> Falsy],
    [kind |-> "failure", error |-> Message("User rejected"), e |-> Falsy],
    [kind |-> "failure", error |-> <<>>, e |-> Falsy],
    [kind |-> "throw", error |-> <<>>, e |-> ErrorObj("Error", Message("timeout"))],
    [kind |-> "throw", error |-> <<>>, e |-> Falsy] }

\* ---------------------------------------------------------------- the state
VARIABLES
  hdPath,           \* this.hdPath
  accounts,         \* this.accounts
  page,             \* this.page
  perPage,          \* this.perPage
  unlockedAccount,  \* this.unlockedAccount
  paths,            \* this.paths: checksummed address -> index
  hdk,              \* this.hdk: null, or an HDKey with or without a public key
  globalHDKey,      \* whether the free identifier HDKey is bound in the build
  calls,            \* the promises of the operations in progress
  hist,             \* history: how the session was made, and the unlock()
                    \* calls made on it one after the other since
  thrown,           \* what the call just made threw before it returned, if
                    \* anything
  removed,          \* history: the addresses the removeAccount call just
                    \* made took out of this.accounts
  \* The collectible detection poller (CollectibleDetectionController):
  networkType,          \* this.config.networkType
  disabled,             \* this.disabled
  selectedAddress,      \* this.config.selectedAddress
  ignoredCollectibles,  \* getCollectiblesState().ignoredCollectibles
  intervalId,           \* this.intervalId
  intervals,            \* the setInterval timers that were not cleared
  timerCount,           \* how many timers setInterval has made
  resumable,            \* how many start() calls are past their first
                        \* detection and have not set their timer yet
  detecting,            \* the detectCollectibles() calls waiting for the API,
                        \* as a bag
  mapped,               \* history: the collectibles the step just taken went
                        \* through, each with whether it went to addCollectible
  stopped               \* history: stop() has returned and start() was not
                        \* called since

\* The variables of the keyring and those of the poller.
kvars == <<hdPath, accounts, page, perPage, unlockedAccount, paths, hdk,
           globalHDKey, calls, hist, thrown, removed>>
pvars == <<networkType, disabled, selectedAddress, ignoredCollectibles, intervalId,
           intervals, timerCount, resumable, detecting, mapped, stopped>>
vars == <<kvars, pvars>>

Slots == 1..MaxCalls

NullHdk == [null |-> TRUE, publicKey |-> NoKey]
NewHDKey == [null |-> FALSE, publicKey |-> NoKey]
EmptyPaths == [a \in {} |-> 0]

NoPath == [base |-> "", index |-> RootIdx]
Idle == [op |-> "idle", pc |-> "idle", addr |-> NoAddr, n |-> 0,
         status |-> "", delay |-> 0, path |-> NoPath, outcome |-> "none",
         value |-> <<>>, signer |-> NoAddr, added |-> 0, cause |-> "",
         before |-> 0]

Active == {c \in Slots : calls[c].pc \notin {"idle", "done"}}
FreeSlot(c) == calls[c].pc = "idle" /\ \A d \in Slots : d < c => calls[d].pc # "idle"
First == {c \in Slots : \A d \in Slots : c <= d}

\* hist follows a session from its construction for as long as nothing but
\* unlock() calls, each awaited before the next and each answered with
\* success, are made on it: their results, the handshakes sent, whether the
\* session was unlocked after the last one, and whether the session was built
\* from the snapshot of an unlocked one.
HistInvalid == [valid |-> FALSE, results |-> <<>>, handshakes |-> 0,
                unlocked |-> FALSE, fromUnlocked |-> FALSE]
HistStart == [valid |-> TRUE, results |-> <<>>, handshakes |-> 0,
              unlocked |-> FALSE, fromUnlocked |-> FALSE]

\* ------------------------------------------------------ serialize, deserialize
\* A variant that stores the key material with the bookkeeping.
serializeWithKey ==
  [hdPath |-> hdPath, accounts |-> accounts, page |-> page, paths |-> paths,
   perPage |-> perPage, unlockedAccount |-> unlockedAccount,
   publicKey |-> hdk.publicKey]
serialize ==
  [hdPath |-> hdPath, accounts |-> accounts, page |-> page, paths |-> paths,
   perPage |-> perPage, unlockedAccount |-> unlockedAccount]

\* opts.x || d : a missing or falsy field takes the default.
OrDefault(x, falsy, d) == IF x = falsy THEN d ELSE x

EmptyOpts ==
  [hdPath |-> "", accounts |-> <<>>, page |-> 0, paths |-> EmptyPaths,
   perPage |-> 0, unlockedAccount |-> 0]

\* A snapshot stored by an earlier session: one account, found on page 1.
StoredOpts ==
  [hdPath |-> hdPathString,
   accounts |-> <<Addr(XPub(hdPathString), 1, "check")>>,
   page |-> 1,
   paths |-> [a \in {Addr(XPub(hdPathString), i, "check") : i \in 0..(PerPageDefault - 1)}
               |-> a.idx],
   perPage |-> PerPageDefault,
   unlockedAccount |-> 1]

OptsInputs == {EmptyOpts, StoredOpts, serialize}

deserialize(opts) ==
  /\ hdPath' = OrDefault(opts.hdPath, "", hdPathString)
  /\ accounts' = opts.accounts
  /\ page' = OrDefault(opts.page, 0, 0)
  /\ perPage' = OrDefault(opts.perPage, 0, PerPageDefault)

\* A variant that looks for a private key, which a hardware keyring never has.
isUnlockedByPrivateKey(h) == ~h.null /\ h.publicKey = "xprv"
isUnlocked(h) == ~h.null /\ h.publicKey # NoKey

\* ------------------------------------------------- the poller: its state
Timers == 1..MaxTimers
NoInterval == 0

\* The constructor: the default configuration, no timer, nothing in progress.
PollerInit ==
  /\ networkType = MAINNET
  /\ disabled = FALSE
  /\ selectedAddress = ""
  /\ ignoredCollectibles = {}
  /\ intervalId = NoInterval
  /\ intervals = {}
  /\ timerCount = 0
  /\ resumable = 0
  /\ detecting = EmptyBag
  /\ mapped = {}
  /\ stopped = FALSE

Init ==
  /\ globalHDKey \in BOOLEAN
  /\ \E opts \in {EmptyOpts, StoredOpts} :
       /\ hdPath = OrDefault(opts.hdPath, "", hdPathString)
       /\ accounts = opts.accounts
       /\ page = OrDefault(opts.page, 0, 0)
       /\ perPage = OrDefault(opts.perPage, 0, PerPageDefault)
  /\ hdk = NullHdk
  /\ unlockedAccount = 0
  /\ paths = EmptyPaths
  /\ calls = [c \in Slots |-> Idle]
  /\ hist = HistStart
  /\ thrown = NoThrow
  /\ removed = <<>>
  /\ PollerInit

\* new SecuxKeyring(opts): a fresh object; the promises of the old one are
\* no longer this session's.
ConstructWith(opts) ==
  /\ hdk' = NullHdk
  /\ unlockedAccount' = 0
  /\ paths' = EmptyPaths
  /\ deserialize(opts)
  /\ calls' = [c \in Slots |-> Idle]
  /\ hist' = [HistStart EXCEPT !.fromUnlocked = isUnlocked(hdk) /\ opts = serialize]
  /\ thrown' = NoThrow /\ removed' = <<>>
  /\ UNCHANGED <<globalHDKey, pvars>>

Construct == \E opts \in OptsInputs : ConstructWith(opts)

Deserialize ==
  \E opts \in OptsInputs :
    /\ deserialize(opts)
    /\ hist' = HistInvalid
    /\ thrown' = NoThrow /\ removed' = <<>>
    /\ UNCHANGED <<unlockedAccount, paths, hdk, globalHDKey, pvars, calls>>

\* ------------------------------------------------------- synchronous calls
\* parseInt(index, 10) of a number or of a string of digits.
IndexInputs ==
  {[type |-> t, digits |-> d] : t \in {"number", "string"}, d \in 0..MaxCursor}
parseInt(x) == x.digits

setAccountToUnlock ==
  \E index \in IndexInputs :
    /\ unlockedAccount' = parseInt(index)
    /\ hist' = HistInvalid
    /\ thrown' = NoThrow /\ removed' = <<>>
    /\ UNCHANGED <<hdPath, accounts, page, perPage, paths, hdk, globalHDKey, pvars, calls>>

\* The addresses a caller may pass: derived ones in either letter case, the
\* address of the base path, and one no key of the device derives.
AddrInputs ==
  { Addr(XPub(hdPath), 1, "lower"), Addr(XPub(hdPath), RootIdx, "lower"),
    Addr(ForeignKey, 0, "check") }
RemoveInputs ==
  { Addr(XPub(hdPath), 0, "check"), Addr(XPub(hdPath), 1, "lower"),
    Addr(XPub(hdPath), RootIdx, "lower"), Addr(ForeignKey, 0, "check") }

\* A variant that compares the addresses as they are written.
includesExact(accts, address) ==
  \E k \in 1..Len(accts) : accts[k] = address
includesLower(accts, address) ==
  \E k \in 1..Len(accts) : toLowerCase(accts[k]) = toLowerCase(address)
filterOut(accts, address) ==
  SelectSeq(accts, LAMBDA a : toLowerCase(a) # toLowerCase(address))

\* removeAccount(address) throws, changing nothing, when the address is not
\* held.
removeAccountOf(address) ==
  /\ IF includesLower(accounts, address)
       THEN /\ thrown' = NoThrow
            /\ removed' = SelectSeq(accounts,
                                    LAMBDA a : toLowerCase(a) = toLowerCase(address))
            /\ accounts' = filterOut(accounts, address)
       ELSE /\ thrown' = NotFoundError
            /\ removed' = <<>>
            /\ UNCHANGED accounts
  /\ hist' = HistInvalid
  /\ UNCHANGED <<hdPath, page, perPage, unlockedAccount, paths, hdk, globalHDKey, pvars, calls>>

removeAccount == \E address \in RemoveInputs : removeAccountOf(address)

\* forgetDevice: `new HDKey()` names an identifier the module never binds
\* (the require on line 3 is commented out): where the build binds none, the
\* ReferenceError leaves everything after `this.accounts = []` undone.
forgetDevice ==
  /\ accounts' = <<>>
  /\ IF globalHDKey
       THEN /\ hdk' = NewHDKey
            /\ page' = 0
            /\ unlockedAccount' = 0
            /\ paths' = EmptyPaths
            /\ thrown' = NoThrow /\ removed' = <<>>
       ELSE /\ thrown' = HDKeyReferenceError /\ removed' = <<>>
            /\ UNCHANGED <<hdk, page, unlockedAccount, paths>>
  /\ hist' = HistInvalid
  /\ UNCHANGED <<hdPath, perPage, globalHDKey, pvars, calls>>

\* ------------------------------------------------------------------ unlock
Settled(call, outcome, value) ==
  [call EXCEPT !.pc = "done", !.outcome = outcome, !.value = value]

\* What the handlers of getXPublickey(path) make of the device's answer `resp`
\* when this.hdk is h: the new this.hdk and how unlock()'s promise settles.
UnlockResult(h, path, resp) ==
  CASE resp.kind = "success" ->
         IF h.null
           THEN [hdk |-> h, outcome |-> "rejected",
                 value |-> toString(NullHdkTypeError)]
           ELSE [hdk |-> [h EXCEPT !.publicKey = XPub(path)],
                 outcome |-> "resolved", value |-> Message("just unlocked")]
    [] resp.kind = "failure" ->
         [hdk |-> h, outcome |-> "rejected",
          value |-> IF resp.error = <<>> THEN UnknownError ELSE resp.error]
    [] OTHER ->
         [hdk |-> h, outcome |-> "rejected",
          value |-> IF resp.e = Falsy THEN UnknownError ELSE toString(resp.e)]

HandshakePath == [base |-> hdPath, index |-> RootIdx]

\* unlock() called by the user of the keyring.
unlock(c) ==
  /\ FreeSlot(c)
  /\ LET call == [Idle EXCEPT !.op = "unlock"]
         inRow == hist.valid /\ Active = {} /\ Len(hist.results) < 2
     IN IF isUnlocked(hdk)
          THEN /\ calls' = [calls EXCEPT ![c] =
                             Settled(call, "resolved", Message("already unlocked"))]
               /\ hist' = IF inRow
                           THEN [hist EXCEPT !.results = Append(@, "already unlocked"),
                                            !.unlocked = TRUE]
                           ELSE HistInvalid
          ELSE /\ calls' = [calls EXCEPT ![c] =
                             [call EXCEPT !.pc = "handshake", !.path = HandshakePath]]
               /\ hist' = IF inRow
                           THEN [hist EXCEPT !.handshakes = @ + 1]
                           ELSE HistInvalid
  /\ thrown' = NoThrow /\ removed' = <<>>
  /\ UNCHANGED <<hdPath, accounts, page, perPage, unlockedAccount, paths,
                 hdk, globalHDKey, pvars>>

\* The device answers the handshake of a user's unlock() call.
unlockAnswered(c) ==
  /\ calls[c].op = "unlock" /\ calls[c].pc = "handshake"
  /\ \E resp \in HandshakeResponses :
       LET u == UnlockResult(hdk, calls[c].path.base, resp)
       IN /\ hdk' = u.hdk
          /\ calls' = [calls EXCEPT ![c] =
               [Settled(@, u.outcome, u.value) EXCEPT !.cause = resp.kind]]
          /\ hist' = IF hist.valid /\ resp.kind = "success"
                      THEN [hist EXCEPT
                              !.results = Append(@, IF u.outcome = "resolved"
                                                      THEN "just unlocked"
                                                      ELSE "rejected"),
                              !.unlocked = isUnlocked(u.hdk)]
                      ELSE HistInvalid
  /\ thrown' = NoThrow /\ removed' = <<>>
  /\ UNCHANGED <<hdPath, accounts, page, perPage, unlockedAccount, paths,
                 globalHDKey, pvars>>

\* ------------------------------------------------- derivation and indexing
\* hdk.derive(`m/${i}`) needs a public key and an index that is no negative
\* number; it throws otherwise.
CanDerive(h, i) == isUnlocked(h) /\ i >= 0
_addressFromIndex(h, i) == toChecksumAddress(Addr(h.publicKey, i, "lower"))

includes(accts, address) == \E k \in 1..Len(accts) : accts[k] = address
\* A variant that pushes without looking.
pushAlways(accts, address) == Append(accts, address)
pushNew(accts, address) ==
  IF ~includes(accts, address) THEN Append(accts, address) ELSE accts

\* The loop of addAccounts over i = from .. to-1.
RECURSIVE addLoop(_, _, _, _)
addLoop(accts, h, i, to) ==
  IF i < to
    THEN addLoop(pushNew(accts, _addressFromIndex(h, i)), h, i + 1, to)
    ELSE accts

\* The loop of __getPage: this.paths[toChecksumAddress(address)] = i.
pageLoop(p, h, from, to) ==
  LET new == {toChecksumAddress(_addressFromIndex(h, i)) : i \in from..(to - 1)}
  IN [a \in DOMAIN p \cup new |-> IF a \in new THEN a.idx ELSE p[a]]

\* The index _pathFromAddress finds: the cached one, else the first i below
\* MAX_INDEX whose address matches; Undefined when there is none.
Undefined == 0 - 2
scanIndex(h, checksummed) ==
  LET hits == {i \in 0..(MAX_INDEX - 1) : _addressFromIndex(h, i) = checksummed}
  IN IF hits = {} THEN Undefined
     ELSE CHOOSE i \in hits : \A j \in hits : i <= j
indexOf(p, h, address) ==
  LET checksummed == toChecksumAddress(address)
  IN IF checksummed \in DOMAIN p THEN p[checksummed] ELSE scanIndex(h, checksummed)
\* _pathFromAddress throws when the scan has to derive and cannot, and when
\* no index is found.
pathFromAddressThrows(p, h, address) ==
  \/ toChecksumAddress(address) \notin DOMAIN p /\ ~CanDerive(h, 0)
  \/ indexOf(p, h, address) = Undefined
_pathFromAddress(p, h, base, address) ==
  [base |-> base, index |-> indexOf(p, h, address)]

\* ---------------------------------------- the operations that unlock first
\* Record in a call how the device answered its handshake, if it sent one.
Answered(call, status) ==
  [call EXCEPT !.cause = IF status = "just unlocked" THEN "success" ELSE @]

\* The body of addAccounts' .then, run with this.hdk = h.
addAccountsThen(c, h, status) ==
  LET from == unlockedAccount
      to == from + calls[c].n
  IN IF CanDerive(h, from)
       THEN LET accts == addLoop(accounts, h, from, to)
            IN /\ accounts' = accts
               /\ page' = 0
               /\ calls' = [calls EXCEPT ![c] =
                    [Settled(Answered(@, status), "resolved", Message("accounts"))
                       EXCEPT !.added = Len(accts) - Len(accounts)]]
       ELSE /\ calls' = [calls EXCEPT ![c] =
                    Settled(Answered(@, status), "rejected", Message("derive failed"))]
            /\ UNCHANGED <<accounts, page>>

\* The body of __getPage's .then, run with this.hdk = h.
getPageThen(c, h, status) ==
  LET from == (page - 1) * perPage
      to == from + perPage
  IN IF CanDerive(h, from)
       THEN /\ paths' = pageLoop(paths, h, from, to)
            /\ calls' = [calls EXCEPT ![c] =
                 [Settled(Answered(@, status), "resolved", Message("page"))
                    EXCEPT !.n = from]]
       ELSE /\ calls' = [calls EXCEPT ![c] =
                 Settled(Answered(@, status), "rejected", Message("derive failed"))]
            /\ UNCHANGED paths

\* A variant that waits after every unlock.
popupDelayAlways(status) == DELAY_BETWEEN_POPUPS
\* status === 'just unlocked' ? DELAY_BETWEEN_POPUPS : 0
popupDelay(status) == IF status = "just unlocked" THEN DELAY_BETWEEN_POPUPS ELSE 0

\* The body of signPersonalMessage's .then: set the timer.
signPersonalMessageThen(c, status) ==
  calls' = [calls EXCEPT ![c] =
    [Answered(@, status) EXCEPT !.pc = "timer", !.status = status,
                                !.delay = popupDelay(status)]]

\* Start an operation that calls this.unlock() first.
begin(c, call) ==
  calls' = [calls EXCEPT ![c] =
    IF isUnlocked(hdk)
      THEN [call EXCEPT !.pc = "resume", !.status = "already unlocked"]
      ELSE [call EXCEPT !.pc = "handshake", !.path = HandshakePath]]

addAccounts(c) ==
  /\ FreeSlot(c)
  /\ \E n \in 1..MaxN :
       /\ unlockedAccount + n - 1 <= MaxIndex
       /\ begin(c, [Idle EXCEPT !.op = "addAccounts", !.n = n])
  /\ hist' = HistInvalid
  /\ thrown' = NoThrow /\ removed' = <<>>
  /\ UNCHANGED <<hdPath, accounts, page, perPage, unlockedAccount, paths,
                 hdk, globalHDKey, pvars>>

\* A variant of the floor of __getPage that stops at 0.
floorAtZero(p) == IF p < 0 THEN 0 ELSE p
\* if (this.page <= 0) this.page = 1
floorAtOne(p) == IF p <= 0 THEN 1 ELSE p

PageOps == {"getFirstPage", "getNextPage", "getPreviousPage"}
\* The cursor as a page operation leaves it, before it unlocks.
pageAfter(op, p) ==
  CASE op = "getFirstPage" -> floorAtOne(0 + 1)
    [] op = "getNextPage" -> floorAtOne(p + 1)
    [] OTHER -> floorAtOne(p - 1)

\* getFirstPage, getNextPage, getPreviousPage: the cursor moves at once.
getPageOf(c, op) ==
  /\ FreeSlot(c)
  /\ pageAfter(op, page) <= MaxPage
  /\ page' = pageAfter(op, page)
  /\ begin(c, [Idle EXCEPT !.op = op, !.before = page])
  /\ hist' = HistInvalid
  /\ thrown' = NoThrow /\ removed' = <<>>
  /\ UNCHANGED <<hdPath, accounts, perPage, unlockedAccount, paths, hdk, globalHDKey, pvars>>

getPage(c) == \E op \in PageOps : getPageOf(c, op)

signPersonalMessage(c) ==
  /\ FreeSlot(c)
  /\ \E withAccount \in AddrInputs :
       begin(c, [Idle EXCEPT !.op = "signPersonalMessage", !.addr = withAccount])
  /\ hist' = HistInvalid
  /\ thrown' = NoThrow /\ removed' = <<>>
  /\ UNCHANGED <<hdPath, accounts, page, perPage, unlockedAccount, paths,
                 hdk, globalHDKey, pvars>>

\* What follows unlock() in operation c, with status and this.hdk = h.
thenOf(c, h, status) ==
  CASE calls[c].op = "addAccounts" ->
         /\ addAccountsThen(c, h, status)
         /\ UNCHANGED paths
    [] calls[c].op \in PageOps ->
         /\ getPageThen(c, h, status)
         /\ UNCHANGED <<accounts, page>>
    [] OTHER ->
         /\ signPersonalMessageThen(c, status)
         /\ UNCHANGED <<accounts, page, paths>>

\* How operation c passes on a rejection of unlock(): signPersonalMessage
\* wraps it in a new Error, the others hand it on.
catchOf(c, value, kind) ==
  calls' = [calls EXCEPT ![c] =
    [Settled(@, "rejected",
             IF calls[c].op = "signPersonalMessage"
               THEN toString(ErrorObj("Error", value))
               ELSE value) EXCEPT !.cause = kind]]

\* unlock() found the session unlocked: the .then runs in a later job.
resume(c) ==
  /\ calls[c].pc = "resume"
  /\ thenOf(c, hdk, "already unlocked")
  /\ thrown' = NoThrow /\ removed' = <<>>
  /\ UNCHANGED <<hdPath, perPage, unlockedAccount, hdk, globalHDKey, pvars, hist>>

\* The device answers the handshake of an operation that unlocks first.
handshakeAnswered(c) ==
  /\ calls[c].op # "unlock" /\ calls[c].pc = "handshake"
  /\ \E resp \in HandshakeResponses :
       LET u == UnlockResult(hdk, calls[c].path.base, resp)
       IN /\ hdk' = u.hdk
          /\ IF u.outcome = "resolved"
               THEN thenOf(c, u.hdk, "just unlocked")
               ELSE /\ catchOf(c, u.value, resp.kind)
                    /\ UNCHANGED <<accounts, page, paths>>
  /\ thrown' = NoThrow /\ removed' = <<>>
  /\ UNCHANGED <<hdPath, perPage, unlockedAccount, globalHDKey, pvars, hist>>

\* --------------------------------------------------------------- signing
\* SecuxETH.signMessage answers with a signature, with nothing, or throws.
SignMessageResponses ==
  { [kind |-> "signature", e |-> Falsy],
    [kind |-> "empty", e |-> Falsy],
    [kind |-> "throw", e |-> ErrorObj("Error", Message("User rejected"))],
    [kind |-> "throw", e |-> Falsy] }
UndefinedTypeError ==
  ErrorObj("TypeError", Message("Cannot read properties of undefined"))

\* The timer of signPersonalMessage fires: _pathFromAddress, then the device
\* call. A throw of _pathFromAddress happens in the timer's callback, where
\* nothing catches it, and the promise is left pending.
timerFires(c) ==
  /\ calls[c].pc = "timer"
  /\ calls' = [calls EXCEPT ![c] =
       IF pathFromAddressThrows(paths, hdk, calls[c].addr)
         THEN [@ EXCEPT !.pc = "hung"]
         ELSE [@ EXCEPT !.pc = "signing",
                        !.path = _pathFromAddress(paths, hdk, hdPath, calls[c].addr)]]
  /\ thrown' = NoThrow /\ removed' = <<>>
  /\ UNCHANGED <<hdPath, accounts, page, perPage, unlockedAccount, paths, hdk,
                 globalHDKey, pvars, hist>>

signMessageAnswered(c) ==
  /\ calls[c].op = "signPersonalMessage" /\ calls[c].pc = "signing"
  /\ \E resp \in SignMessageResponses :
       calls' = [calls EXCEPT ![c] =
         CASE resp.kind = "signature" -> Settled(@, "resolved", Message("0x signature"))
           [] resp.kind = "empty" -> Settled(@, "rejected", toString(UndefinedTypeError))
           [] OTHER -> Settled(@, "rejected",
                         IF resp.e = Falsy THEN UnknownError ELSE toString(resp.e))]
  /\ thrown' = NoThrow /\ removed' = <<>>
  /\ UNCHANGED <<hdPath, accounts, page, perPage, unlockedAccount, paths, hdk,
                 globalHDKey, pvars, hist>>

\* A caller gives up a promise that will never settle.
Abandon(c) ==
  /\ calls[c].pc = "hung"
  /\ calls' = [calls EXCEPT ![c] = Idle]
  /\ thrown' = NoThrow /\ removed' = <<>>
  /\ UNCHANGED <<hdPath, accounts, page, perPage, unlockedAccount, paths, hdk,
                 globalHDKey, pvars, hist>>

\* signTransaction hands the transaction to the device at once, for the path
\* this.hdPath.
signTransaction(c) ==
  /\ FreeSlot(c)
  /\ \E address \in AddrInputs :
       calls' = [calls EXCEPT ![c] =
         [Idle EXCEPT !.op = "signTransaction", !.addr = address, !.pc = "signing",
                      !.path = [base |-> hdPath, index |-> RootIdx]]]
  /\ hist' = HistInvalid
  /\ thrown' = NoThrow /\ removed' = <<>>
  /\ UNCHANGED <<hdPath, accounts, page, perPage, unlockedAccount, paths,
                 hdk, globalHDKey, pvars>>

\* SecuxETH.signTransaction answers with a signature, from which the signed
\* transaction recovers the address of one signer or other; with bytes no
\* sender can be recovered from; or it throws.
Signers(base) ==
  { Addr(XPub(base), RootIdx, "lower"), Addr(XPub(base), 1, "lower"),
    Addr(ForeignKey, 0, "lower") }
SignTransactionResponses(base) ==
  {[kind |-> "signature", signer |-> a, e |-> Falsy] : a \in Signers(base)}
  \cup { [kind |-> "malformed", signer |-> NoAddr, e |-> Falsy],
         [kind |-> "throw", signer |-> NoAddr,
          e |-> ErrorObj("Error", Message("User rejected"))] }

\* A variant that compares the recovered address with itself.
signerMismatchSelf(sender, address) ==
  toChecksumAddress(sender) # toChecksumAddress(sender)
\* addressSignedWith !== correctAddress
signerMismatch(sender, address) ==
  toChecksumAddress(sender) # toChecksumAddress(address)

signTransactionResult(call, resp) ==
  CASE resp.kind = "signature" ->
         IF signerMismatch(resp.signer, call.addr)
           THEN [Settled(call, "rejected",
                         Message("signature doesn't match the right address"))
                   EXCEPT !.signer = toChecksumAddress(resp.signer)]
           ELSE [Settled(call, "resolved", Message("signed transaction"))
                   EXCEPT !.signer = toChecksumAddress(resp.signer)]
    [] resp.kind = "malformed" ->
         Settled(call, "rejected", Message("Invalid Signature"))
    [] OTHER -> Settled(call, "rejected", resp.e.message)

signTransactionAnswered(c) ==
  /\ calls[c].op = "signTransaction" /\ calls[c].pc = "signing"
  /\ \E resp \in SignTransactionResponses(calls[c].path.base) :
       calls' = [calls EXCEPT ![c] = signTransactionResult(@, resp)]
  /\ thrown' = NoThrow /\ removed' = <<>>
  /\ UNCHANGED <<hdPath, accounts, page, perPage, unlockedAccount, paths, hdk,
                 globalHDKey, pvars, hist>>

\* ------------------------------------------------------------- getAccounts
getAccounts(c) ==
  /\ FreeSlot(c)
  /\ calls' = [calls EXCEPT ![c] =
       [Idle EXCEPT !.op = "getAccounts", !.pc = "getAddress",
                    !.path = [base |-> hdPath, index |-> RootIdx]]]
  /\ hist' = HistInvalid
  /\ thrown' = NoThrow /\ removed' = <<>>
  /\ UNCHANGED <<hdPath, accounts, page, perPage, unlockedAccount, paths,
                 hdk, globalHDKey, pvars>>

\* SecuxETH.getAddress answers with the address of the path, or throws.
getAddressAnswered(c) ==
  /\ calls[c].pc = "getAddress"
  /\ \/ /\ accounts' = <<Addr(XPub(calls[c].path.base), RootIdx, "check")>>
        /\ calls' = [calls EXCEPT ![c] = Settled(@, "resolved", Message("accounts"))]
     \/ /\ calls' = [calls EXCEPT ![c] = Settled(@, "rejected", Message("timeout"))]
        /\ UNCHANGED accounts
  /\ thrown' = NoThrow /\ removed' = <<>>
  /\ UNCHANGED <<hdPath, page, perPage, unlockedAccount, paths, hdk,
                 globalHDKey, pvars, hist>>

\* ------------------------------------------- signTypedData, exportAccount
UnsupportedOps == {"signTypedData", "exportAccount"}
\* A variant that hands the request to the device and fails later.
attemptOnDevice(op) ==
  [Idle EXCEPT !.op = op, !.pc = "signing",
               !.path = [base |-> hdPath, index |-> RootIdx]]
\* return Promise.reject(new Error('Not supported on this device'))
rejectNotSupported(op) ==
  Settled([Idle EXCEPT !.op = op], "rejected", Message("Not supported on this device"))

notSupported(c) ==
  /\ FreeSlot(c)
  /\ \E op \in UnsupportedOps : calls' = [calls EXCEPT ![c] = rejectNotSupported(op)]
  /\ hist' = HistInvalid
  /\ thrown' = NoThrow /\ removed' = <<>>
  /\ UNCHANGED <<hdPath, accounts, page, perPage, unlockedAccount, paths,
                 hdk, globalHDKey, pvars>>

\* The caller takes the result of a settled call.
Release(c) ==
  /\ calls[c].pc = "done"
  /\ calls' = [calls EXCEPT ![c] = Idle]
  /\ thrown' = NoThrow /\ removed' = <<>>
  /\ UNCHANGED <<hdPath, accounts, page, perPage, unlockedAccount, paths, hdk,
                 globalHDKey, pvars, hist>>

\* One operation in progress at a time, with every synchronous call free to
\* run while it is pending.
Next ==
  \/ Construct
  \/ Deserialize
  \/ setAccountToUnlock
  \/ removeAccount
  \/ forgetDevice
  \/ \E c \in First : unlock(c)
  \/ \E c \in First : unlockAnswered(c)
  \/ \E c \in First : addAccounts(c)
  \/ \E c \in First : getPage(c)
  \/ \E c \in First : signPersonalMessage(c)
  \/ \E c \in First : resume(c)
  \/ \E c \in First : handshakeAnswered(c)
  \/ \E c \in First : timerFires(c)
  \/ \E c \in First : signMessageAnswered(c)
  \/ \E c \in First : signTransaction(c)
  \/ \E c \in First : signTransactionAnswered(c)
  \/ \E c \in First : getAccounts(c)
  \/ \E c \in First : getAddressAnswered(c)
  \/ \E c \in First : notSupported(c)
  \/ \E c \in First : Abandon(c)
  \/ \E c \in First : Release(c)

Spec == Init /\ [][Next]_vars

\* Operations that need the device started while others are still pending.
NextOverlap ==
  \/ forgetDevice
  \/ \E c \in Slots : unlock(c)
  \/ \E c \in Slots : unlockAnswered(c)
  \/ \E c \in Slots : addAccounts(c)
  \/ \E c \in Slots : getPage(c)
  \/ \E c \in Slots : signPersonalMessage(c)
  \/ \E c \in Slots : resume(c)
  \/ \E c \in Slots : handshakeAnswered(c)
  \/ \E c \in Slots : timerFires(c)
  \/ \E c \in Slots : signMessageAnswered(c)
  \/ \E c \in Slots : Abandon(c)
  \/ \E c \in Slots : Release(c)

SpecOverlap == Init /\ [][NextOverlap]_vars

\* The operations that write this.accounts, or decide what those write.
NextAccounts ==
  \/ Construct
  \/ Deserialize
  \/ setAccountToUnlock
  \/ removeAccount
  \/ forgetDevice
  \/ \E c \in First : addAccounts(c)
  \/ \E c \in First : resume(c)
  \/ \E c \in First : handshakeAnswered(c)
  \/ \E c \in First : getAccounts(c)
  \/ \E c \in First : getAddressAnswered(c)
  \/ \E c \in First : Release(c)

SpecAccounts == Init /\ [][NextAccounts]_vars

\* ============================================================== the poller
\* A contract address as the API or the store writes it: in lower case or in
\* checksum case.
Contract(form) == [contract |-> "c1", form |-> form]
toChecksumHexAddress(a) == [a EXCEPT !.form = "check"]

\* The collectibles the API may list for an owner, and the lists it may
\* answer with (an empty one also when the fetch fails).
ApiCollectibles ==
  { [address |-> Contract("lower"), token_id |-> 1],
    [address |-> Contract("check"), token_id |-> 2] }
ApiResponses == SUBSET ApiCollectibles
\* The entries the store may hold as ignored: checksummed address, token id.
IgnoredInputs == { [address |-> Contract("check"), tokenId |-> 1] }
SelectedInputs == {"0xA", "0xB"}
NetworkInputs == {MAINNET, "ropsten"}

\* isMainnet()
isMainnet(type) == type = MAINNET

\* detectCollectibles goes on to the API: lines 301-309.
detects(type, off, selected) == isMainnet(type) /\ ~off /\ selected # ""

\* The detections in progress that a start() call awaits.
awaited ==
  BagCardinality([r \in {x \in BagToSet(detecting) : x.by = "start"} |-> detecting[r]])

\* detectCollectibles() with this.config.selectedAddress = selected, called by
\* a listener, a timer, start() or from outside: it returns at once, or takes
\* the selected address and goes to the API.
detectCollectibles(by, selected) ==
  IF detects(networkType, disabled, selected)
    THEN /\ BagCardinality(detecting) < MaxDetections
         /\ detecting' = detecting (+) SetToBag({
              [requested |-> selected, network |-> networkType, disabled |-> disabled,
               by |-> by]})
    ELSE UNCHANGED detecting

\* The listener of the preferences: a new selected address is configured and
\* a detection started, which nobody awaits.
preferencesChange ==
  \E selected \in SelectedInputs :
    /\ selected # selectedAddress
    /\ selectedAddress' = selected
    /\ detectCollectibles("listener", selected)
    /\ mapped' = {}
    /\ UNCHANGED <<networkType, disabled, ignoredCollectibles, intervalId, intervals,
                   timerCount, resumable, stopped, kvars>>

\* The listener of the network.
networkChange ==
  \E type \in NetworkInputs :
    /\ networkType' = type
    /\ mapped' = {}
    /\ UNCHANGED <<disabled, selectedAddress, ignoredCollectibles, intervalId, intervals,
                   timerCount, resumable, detecting, stopped, kvars>>

\* configure({disabled}) of the base controller.
setDisabled ==
  \E off \in BOOLEAN :
    /\ disabled' = off
    /\ mapped' = {}
    /\ UNCHANGED <<networkType, selectedAddress, ignoredCollectibles, intervalId,
                   intervals, timerCount, resumable, detecting, stopped, kvars>>

\* The store takes a collectible into its ignored list.
ignore ==
  \E entry \in IgnoredInputs :
    /\ ignoredCollectibles' = ignoredCollectibles \cup {entry}
    /\ mapped' = {}
    /\ UNCHANGED <<networkType, disabled, selectedAddress, intervalId, intervals,
                   timerCount, resumable, detecting, stopped, kvars>>

\* detectCollectibles() called directly.
detectOnce ==
  /\ detectCollectibles("call", selectedAddress)
  /\ mapped' = {}
  /\ UNCHANGED <<networkType, disabled, selectedAddress, ignoredCollectibles, intervalId,
                 intervals, timerCount, resumable, stopped, kvars>>

\* ignoredCollectibles.find(c => c.address === toChecksumHexAddress(address)
\*                               && c.tokenId === token_id)
isIgnored(list, collectible) ==
  \E c \in list : /\ c.address = toChecksumHexAddress(collectible.address)
                  /\ c.tokenId = collectible.token_id
\* A variant that takes the address for unchanged.
sameAddressAlways(requested, selected) == TRUE
\* requestedSelectedAddress === this.config.selectedAddress
sameAddress(requested, selected) == requested = selected

\* The API has answered the detection r: every collectible of the answer that
\* is not ignored goes to addCollectible, if the selected address is still the
\* one the detection started with. The map callbacks run to their
\* addCollectible call in the one job that follows the answer.
fetched(r) ==
  /\ r \in BagToSet(detecting)
  /\ \E apiCollectibles \in ApiResponses :
       mapped' =
         { [address |-> c.address, token_id |-> c.token_id,
            requested |-> r.requested, selected |-> selectedAddress,
            network |-> r.network, disabled |-> r.disabled,
            added |-> /\ ~isIgnored(ignoredCollectibles, c)
                      /\ sameAddress(r.requested, selectedAddress)] :
           c \in apiCollectibles }
  /\ detecting' = detecting (-) SetToBag({r})
  /\ resumable' = IF r.by = "start" THEN resumable + 1 ELSE resumable
  /\ UNCHANGED <<networkType, disabled, selectedAddress, ignoredCollectibles, intervalId,
                 intervals, timerCount, stopped, kvars>>

\* stopPolling(): clearInterval(this.intervalId), which stays as it is.
stopPolling(timers) == timers \ {intervalId}

\* start(): startPolling() up to its await of the first detection.
start ==
  /\ stopped' = FALSE
  /\ mapped' = {}
  /\ IF ~isMainnet(networkType) \/ disabled
       THEN UNCHANGED <<intervals, detecting, resumable>>
       ELSE /\ awaited + resumable < MaxStarts
            /\ intervals' = stopPolling(intervals)
            /\ detectCollectibles("start", selectedAddress)
            /\ resumable' = IF detects(networkType, disabled, selectedAddress)
                               THEN resumable ELSE resumable + 1
  /\ UNCHANGED <<networkType, disabled, selectedAddress, ignoredCollectibles, intervalId,
                 timerCount, kvars>>

\* startPolling() after its await: this.intervalId = setInterval(...).
startResumes ==
  /\ resumable > 0
  /\ timerCount < MaxTimers
  /\ timerCount' = timerCount + 1
  /\ intervalId' = timerCount + 1
  /\ intervals' = intervals \cup {timerCount + 1}
  /\ resumable' = resumable - 1
  /\ mapped' = {}
  /\ UNCHANGED <<networkType, disabled, selectedAddress, ignoredCollectibles, detecting,
                 stopped, kvars>>

\* stop()
stop ==
  /\ intervals' = stopPolling(intervals)
  /\ stopped' = TRUE
  /\ mapped' = {}
  /\ UNCHANGED <<networkType, disabled, selectedAddress, ignoredCollectibles, intervalId,
                 timerCount, resumable, detecting, kvars>>

\* The callback of timer t runs: a detection nobody awaits.
intervalFires(t) ==
  /\ t \in intervals
  /\ detectCollectibles("timer", selectedAddress)
  /\ mapped' = {}
  /\ UNCHANGED <<networkType, disabled, selectedAddress, ignoredCollectibles, intervalId,
                 intervals, timerCount, resumable, stopped, kvars>>

NextPoller ==
  \/ preferencesChange
  \/ networkChange
  \/ setDisabled
  \/ ignore
  \/ detectOnce
  \/ \E r \in BagToSet(detecting) : fetched(r)
  \/ start
  \/ startResumes
  \/ stop
  \/ \E t \in Timers : intervalFires(t)

\* The poller beside a keyring nobody uses.
InitPoller == Init /\ ~globalHDKey /\ accounts = <<>>
SpecPoller == InitPoller /\ [][NextPoller]_vars

\* ================================================================ properties
Locked == hdk.null \/ hdk.publicKey = NoKey
Outstanding == {c \in Slots : calls[c].pc = "handshake"}
IssuesHandshake(c) == calls'[c].pc = "handshake" /\ calls[c].pc # "handshake"
IssuesSigning(c) == calls'[c].pc = "signing" /\ calls[c].pc # "signing"
MismatchMessage == Message("signature doesn't match the right address")

\* C1: a settled signTransaction call has returned a signed transaction only
\* if the address recovered from it is the checksummed `address` argument, and
\* whenever the recovered address differs it was rejected with the signer
\* mismatch error.
C1_SignerVerified ==
  \A c \in Slots :
    (calls[c].op = "signTransaction" /\ calls[c].pc = "done") =>
      /\ calls[c].outcome = "resolved" =>
           /\ calls[c].signer # NoAddr
           /\ calls[c].signer = toChecksumAddress(calls[c].addr)
      /\ (calls[c].signer # NoAddr
          /\ calls[c].signer # toChecksumAddress(calls[c].addr)) =>
           /\ calls[c].outcome = "rejected"
           /\ calls[c].value = MismatchMessage

\* The device returned a signature of another signer and the call was rejected.
C1_Witness ==
  \E c \in Slots :
    /\ calls[c].op = "signTransaction" /\ calls[c].pc = "done"
    /\ calls[c].signer # NoAddr
    /\ calls[c].signer # toChecksumAddress(calls[c].addr)
    /\ calls[c].outcome = "rejected"

\* C2: when signTransaction sends its request to the device, the address has
\* been resolved (cache, then scan) and the request is for the resolved path;
\* for an address that does not resolve no request is sent.
C2_SignsForResolvedPath ==
  [][\A c \in Slots :
       (IssuesSigning(c) /\ calls'[c].op = "signTransaction") =>
         /\ ~pathFromAddressThrows(paths, hdk, calls'[c].addr)
         /\ calls'[c].path = _pathFromAddress(paths, hdk, hdPath, calls'[c].addr)]_vars

\* C3: on a new (locked) session whose device answers the handshake with
\* success, the first unlock() returns "just unlocked", the second "already
\* unlocked", one handshake is sent in all, and the session is unlocked after.
C3_UnlockTwice ==
  /\ (hist.valid /\ Len(hist.results) >= 1) => hist.results[1] = "just unlocked"
  /\ (hist.valid /\ Len(hist.results) = 2) =>
       /\ hist.results = <<"just unlocked", "already unlocked">>
       /\ hist.handshakes = 1
       /\ hist.unlocked

\* C4 (as stated): at most one handshake is outstanding at any time.
C4_OneHandshakeOutstanding == Cardinality(Outstanding) <= 1

\* C4 (amended): a handshake is sent only by an operation that starts while
\* the session is locked, one per operation; so an operation started while no
\* other is in progress leaves exactly one handshake outstanding, and once the
\* key material is present no operation sends another.
C4_HandshakeOnlyWhenLocked ==
  [][\A c \in Slots :
       IssuesHandshake(c) =>
         /\ Locked
         /\ calls[c].pc = "idle"
         /\ (Active = {} => Cardinality({d \in Slots : calls'[d].pc = "handshake"}) = 1)]_vars

\* One operation waits for its handshake while a later one, started after the
\* session was unlocked, goes on without one.
C4_Witness ==
  \E c, d \in Slots : calls[c].pc = "handshake" /\ calls[d].pc = "resume"

\* C5: a signing request goes to the device only while the session is unlocked.
C5_SignOnlyUnlocked ==
  [][\A c \in Slots : IssuesSigning(c) => ~Locked']_vars

\* C6: a failed handshake rejects unlock() and leaves the session locked; the
\* error of a failure the device reports carries the device's message or the
\* generic one; the error of a transport failure wraps the underlying error
\* and is none a device-reported failure can produce.
DeviceErrorValues ==
  {IF r.error = <<>> THEN UnknownError ELSE r.error :
     r \in {x \in HandshakeResponses : x.kind = "failure"}}
C6_FailureKinds ==
  \A c \in Slots :
    (calls[c].op = "unlock" /\ calls[c].pc = "done"
     /\ calls[c].cause \in {"failure", "throw"}) =>
      /\ calls[c].outcome = "rejected"
      /\ calls[c].cause = "failure" => calls[c].value \in DeviceErrorValues
      /\ calls[c].cause = "throw" => calls[c].value \notin DeviceErrorValues

\* C7: no address is held twice in this.accounts, in whatever letter case.
C7_NoDuplicateAccounts ==
  \A i, j \in 1..Len(accounts) :
    i # j => toLowerCase(accounts[i]) # toLowerCase(accounts[j])

\* addAccounts(2) over a range one of whose addresses was already held.
C7_Witness ==
  \E c \in Slots :
    /\ calls[c].op = "addAccounts" /\ calls[c].pc = "done"
    /\ calls[c].n = 2 /\ calls[c].added = 1
    /\ Len(accounts) >= 2

\* C8: every address of this.accounts has an entry in this.paths.
C8_AccountsIndexed ==
  \A k \in 1..Len(accounts) : toChecksumAddress(accounts[k]) \in DOMAIN paths

\* C9: a session constructed from serialize() of this one has the same
\* hdPath, accounts, page, perPage, paths and unlockedAccount.
C9_RoundTrip ==
  [][ConstructWith(serialize) =>
       /\ hdPath' = hdPath /\ accounts' = accounts
       /\ page' = page /\ perPage' = perPage
       /\ paths' = paths /\ unlockedAccount' = unlockedAccount]_vars

\* C10: the snapshot has the six bookkeeping fields and no key material;
\* constructing and deserializing send nothing to the device; a constructed
\* session is locked, and a locked session becomes unlocked only in the step
\* in which a handshake is answered with success.
SnapshotFields == {"hdPath", "accounts", "page", "paths", "perPage", "unlockedAccount"}
DevicePending == {"handshake", "signing", "getAddress"}
C10_SnapshotLocked ==
  /\ Locked
  /\ [](DOMAIN serialize = SnapshotFields)
  /\ [][/\ (Construct \/ Deserialize) =>
             \A c \in Slots : calls'[c].pc \in DevicePending => calls'[c] = calls[c]
        /\ Construct => Locked'
        /\ (Locked /\ ~Locked') =>
             \E c \in Slots : /\ calls[c].pc = "handshake"
                              /\ calls'[c].pc # "handshake"
                              /\ calls'[c].cause = "success"]_vars

\* A session constructed from the snapshot of an unlocked one, with its
\* accounts, and locked.
C10_Witness ==
  hist.fromUnlocked /\ Locked /\ accounts # <<>>

\* C11: once a page operation has been requested on a session, page is at
\* least 1 in every later state of it, whatever operations follow; stated of
\* the states in which the promise of a page operation is pending or settled
\* and not yet taken.
C11_PageStaysPositive == (\E c \in Slots : calls[c].op \in PageOps) => page >= 1

\* C12: getPreviousPage leaves page at least 1 (one less than before, or 1),
\* getNextPage leaves it exactly one more than before, getFirstPage leaves it
\* exactly 1; and however the unlock inside the call ends, the settling of a
\* page operation leaves page as the call set it.
C12_PageFloor ==
  [][\A c \in Slots :
       /\ getPageOf(c, "getPreviousPage") =>
            /\ page' >= 1
            /\ page' = (IF page - 1 >= 1 THEN page - 1 ELSE 1)
       /\ getPageOf(c, "getNextPage") => page' = page + 1
       /\ getPageOf(c, "getFirstPage") => page' = 1
       /\ (calls[c].op \in PageOps /\ calls[c].pc # "done" /\ calls'[c].pc = "done") =>
            page' = page]_vars

\* getPreviousPage was called with page at 1, its unlock failed, and page is 1.
C12_Witness ==
  \E c \in Slots :
    /\ calls[c].op = "getPreviousPage" /\ calls[c].pc = "done"
    /\ calls[c].outcome = "rejected"
    /\ calls[c].before = 1 /\ page = 1

\* C13: forgetDevice returns normally and leaves accounts and paths empty,
\* page and unlockedAccount at their initial values, and the session without
\* key material, so locked.
C13_ForgetResets ==
  [][forgetDevice =>
       /\ thrown' = NoThrow
       /\ accounts' = <<>> /\ paths' = EmptyPaths
       /\ page' = 0 /\ unlockedAccount' = 0
       /\ hdk'.publicKey = NoKey /\ ~isUnlocked(hdk')]_vars

\* C14: removeAccount(address), when some held address is `address` but for
\* the letter case, returns normally and leaves the held addresses that are
\* not, in the order they had; when none is, it throws the not-found error
\* and leaves accounts as they were.
SameButCase(a, b) == a.key = b.key /\ a.idx = b.idx
Kept(address) == {k \in 1..Len(accounts) : ~SameButCase(accounts[k], address)}
C14_RemoveCaseInsensitive ==
  [][\A address \in RemoveInputs :
       removeAccountOf(address) =>
         LET K == Kept(address)
         IN IF K # 1..Len(accounts)
              THEN /\ thrown' = NoThrow
                   /\ Len(accounts') = Cardinality(K)
                   /\ \A i \in 1..Len(accounts') :
                        \E k \in K : /\ Cardinality({j \in K : j <= k}) = i
                                     /\ accounts'[i] = accounts[k]
              ELSE /\ thrown' = NotFoundError
                   /\ accounts' = accounts]_vars

\* An address held in checksum case was removed by its lower-case form, and
\* another address is still held.
C14_Witness ==
  /\ removed # <<>> /\ removed[1].idx = 1 /\ removed[1].form = "check"
  /\ accounts # <<>>

\* C15: when _pathFromAddress resolves an address that has no entry in
\* this.paths, it finds the index by the scan and records it in this.paths
\* under the checksummed address; when the scan finds nothing it fails and
\* this.paths is as it was.
C15_ScanCaches ==
  [][\A c \in Slots :
       (timerFires(c) /\ toChecksumAddress(calls[c].addr) \notin DOMAIN paths) =>
         IF calls'[c].pc = "signing"
           THEN /\ calls'[c].path.index = scanIndex(hdk, toChecksumAddress(calls[c].addr))
                /\ toChecksumAddress(calls[c].addr) \in DOMAIN paths'
                /\ paths'[toChecksumAddress(calls[c].addr)] = calls'[c].path.index
           ELSE paths' = paths]_vars

\* C16: a signPersonalMessage call that got past its unlock waits
\* DELAY_BETWEEN_POPUPS before the device call exactly when its own unlock
\* returned "just unlocked" (its handshake was answered with success), and
\* waits 0 exactly when its unlock returned "already unlocked"; its timer is
\* set only as its unlock completes, and its signing request goes to the
\* device only as that timer fires.
PastUnlock(c) == calls[c].op = "signPersonalMessage" /\ calls[c].status # ""
C16_DelayIffJustUnlocked ==
  /\ [](\A c \in Slots :
          PastUnlock(c) =>
            /\ calls[c].status \in {"just unlocked", "already unlocked"}
            /\ calls[c].status = "just unlocked" <=> calls[c].cause = "success"
            /\ calls[c].delay = DELAY_BETWEEN_POPUPS <=> calls[c].status = "just unlocked"
            /\ calls[c].delay = 0 <=> calls[c].status = "already unlocked")
  /\ [][\A c \in Slots :
          /\ (calls'[c].pc = "timer" /\ calls[c].pc # "timer") =>
               \/ calls[c].pc = "resume" /\ calls'[c].status = "already unlocked"
               \/ calls[c].pc = "handshake" /\ ~Locked'
                  /\ calls'[c].status = "just unlocked"
          /\ (IssuesSigning(c) /\ calls'[c].op = "signPersonalMessage") =>
               calls[c].pc = "timer"]_vars

\* A signing request sent after the delay that follows a fresh unlock.
C16_Witness ==
  \E c \in Slots :
    /\ calls[c].op = "signPersonalMessage" /\ calls[c].pc = "signing"
    /\ calls[c].status = "just unlocked"
    /\ calls[c].delay = DELAY_BETWEEN_POPUPS

\* C17: every failure inside signPersonalMessage rejects its promise: the
\* timer's callback either sends the one signing request or, when the address
\* does not resolve, rejects; so no call is ever left with its promise
\* pending and nothing left to run that could settle it; and a call sends no
\* second signing request.
C17_FailuresRejected ==
  /\ [](\A c \in Slots : calls[c].pc # "hung")
  /\ [][\A c \in Slots :
          /\ timerFires(c) =>
               IF pathFromAddressThrows(paths, hdk, calls[c].addr)
                 THEN calls'[c].pc = "done" /\ calls'[c].outcome = "rejected"
                 ELSE calls'[c].pc = "signing"
          /\ (calls[c].op = "signPersonalMessage" /\ calls[c].pc = "signing"
              /\ calls'[c] # calls[c]) =>
               calls'[c].pc \in {"done", "idle"}]_vars

\* C18: signTypedData and exportAccount return a promise already rejected
\* with the not-supported error, in every state of the session; the call
\* sends nothing to the device and changes no field of the session.
C18_NotSupported ==
  /\ [](\A c \in Slots :
          calls[c].op \in UnsupportedOps =>
            /\ calls[c].pc = "done" /\ calls[c].outcome = "rejected"
            /\ calls[c].value = Message("Not supported on this device"))
  /\ [][\A c \in Slots :
          notSupported(c) =>
            /\ calls'[c].op \in UnsupportedOps
            /\ \A d \in Slots : calls'[d].pc \in DevicePending => calls'[d] = calls[d]
            /\ UNCHANGED <<hdPath, accounts, page, perPage, unlockedAccount, paths, hdk>>]_vars

\* An unsupported operation rejected on an unlocked session that holds accounts.
C18_Witness ==
  \E c \in Slots :
    /\ calls[c].op \in UnsupportedOps /\ calls[c].pc = "done"
    /\ calls[c].outcome = "rejected"
    /\ ~Locked /\ accounts # <<>>

\* C19: as addAccounts(n) resolves, with from = this.unlockedAccount, the
\* addresses held before keep their positions, the addresses of the indices
\* from .. from+n-1 that were not held follow them in index order, each
\* address of those indices has its index in this.paths, and page is 0; as
\* it rejects, accounts are as they were.
Settles(c) == calls[c].pc # "done" /\ calls'[c].pc = "done"
Range(seq) == {seq[k] : k \in 1..Len(seq)}
DerivedAt(h, i) == Addr(h.publicKey, i, "check")
C19_AddAccounts ==
  [][\A c \in Slots :
       (calls[c].op = "addAccounts" /\ Settles(c)) =>
         IF calls'[c].outcome = "resolved"
           THEN LET range == unlockedAccount..(unlockedAccount + calls[c].n - 1)
                    new == (Len(accounts) + 1)..Len(accounts')
                IN /\ Len(accounts') >= Len(accounts)
                   /\ \A k \in 1..Len(accounts) : accounts'[k] = accounts[k]
                   /\ Range(accounts') = Range(accounts) \cup {DerivedAt(hdk', i) : i \in range}
                   /\ \A j, k \in new : j < k => accounts'[j].idx < accounts'[k].idx
                   /\ page' = 0
                   /\ \A i \in range :
                        /\ DerivedAt(hdk', i) \in DOMAIN paths'
                        /\ paths'[DerivedAt(hdk', i)] = i
           ELSE accounts' = accounts]_vars

\* C20: getAccounts changes no field of the session, neither as it is called
\* nor as it settles: this.accounts after it is this.accounts before it.
C20_GetAccountsReadOnly ==
  [][\A c \in Slots :
       (getAccounts(c) \/ (calls[c].op = "getAccounts" /\ Settles(c))) =>
         UNCHANGED <<hdPath, accounts, page, perPage, unlockedAccount, paths, hdk>>]_vars
\* C21: the poller never hands a collectible to addCollectible when the
\* detection started off the main network or disabled, when the ignored
\* list holds the collectible under its checksummed contract address and its
\* token id, or when the selected address at that moment is not the one the
\* detection started with; whatever changed while the detection was waiting.
C21_ForwardsOnlyAllowed ==
  \A f \in mapped :
    f.added => /\ f.network = MAINNET
               /\ ~f.disabled
               /\ ~\E c \in ignoredCollectibles :
                     /\ c.address = toChecksumHexAddress(f.address)
                     /\ c.tokenId = f.token_id
               /\ f.requested = f.selected
\* One answer holds a collectible written in lower case that is ignored and
\* one that is not, and arrives after the selected address has changed.
C21_Witness ==
  /\ Cardinality(mapped) = 2
  /\ \A f \in mapped : ~f.added /\ f.requested # f.selected
  /\ \E f \in mapped :
       /\ f.address.form = "lower"
       /\ \E c \in ignoredCollectibles : c.tokenId = f.token_id

\* C22: at most one polling timer is active at any time, and once stop() has
\* returned no timer starts a detection until start() is called again.
C22_OneTimerUntilStopped ==
  /\ [](Cardinality(intervals) <= 1)
  /\ [][(\E t \in Timers : intervalFires(t)) => ~stopped]_vars
====
